---- MODULE Spec2Model ----
(***************************************************************************)
(* The Spotify credential lifecycle of the AUX backend                     *)
(* (src/src/spotify/routes.py): the users store rows holding the           *)
(* credential triple, the requests that read and write them, the provider  *)
(* that issues tokens, and the wall clock.                                  *)
(*                                                                         *)
(* A request is split at its network calls (store read, provider call,     *)
(* store write): these are the points where requests of other callers can  *)
(* interleave.  Everything a handler does locally between two network      *)
(* calls belongs to the step of the call that follows it.                  *)
(***************************************************************************)
EXTENDS Integers, Sequences, FiniteSets, TLC

VARIABLES
    now,        \* wall clock, in seconds
    store,      \* users table: user id -> credential columns of the row
    provLog,    \* the provider's token responses, in the order issued
    lastWrite,  \* per user: the last update applied to the row (id: the
                \* provider response it carried, 0 for none; cleared: a
                \* disconnect was applied and no callback has written since;
                \* failed: a call of the user ended for a failed refresh or
                \* for lack of a refresh token, and nothing has written the
                \* row since)
    handler,    \* per request: the endpoint serving it
    pc,         \* per request: position in its handler
    req_now,    \* per request: the local `now` read at line 47 (-1: not read)
    user,       \* per request: the in-memory user dict (current_user)
    loaded,     \* per request: the row as get_current_user loaded it
    after_disconnect, \* per request: it began after a disconnect of its user
                      \* was applied, no callback having written since
    cbState,    \* per request: the `state` query parameter of a callback
    code,       \* per request: the `code` query parameter of a callback, as
                \* the party whose authorization at the provider it stands for
    token_info, \* per request: the provider response held by the handler
    trace,      \* per request: the external effects it caused, in order
    written,    \* per request: the update_data payloads it sent to the store
    result,     \* per request: the response (status, detail, token used)
    users,      \* users table: the identity columns (id, username) of its rows
    posts,      \* posts table
    follows,    \* follows table
    notifications, \* notifications table
    serial,     \* the id generators of the tables: ids handed out so far
    local       \* per request: the parameters and local variables of a
                \* posts, users or notifications handler

vars == <<now, store, provLog, lastWrite, handler, pc, req_now, user, loaded, after_disconnect,
          cbState, code, token_info, trace, written, result,
          users, posts, follows, notifications, serial, local>>

\* the tables and the handler locals outside the Spotify routes
socialVars == <<users, posts, follows, notifications, serial, local>>

----------------------------------------------------------------------------
(* Bounds *)

MaxTicks == 4
MaxIssue == 3

Users == {"u1"}
\* request slots: two requests can be in flight at once
Reqs == {1, 2}
\* rows the posts table is given in a run, rows the follows table is given
MaxPosts == 2
MaxFollows == 3
\* ids a callback's `state` parameter may carry: users, and one unknown id
StateIds == Users \cup {"ghost"}
\* the parties that may have authorized at the provider to obtain the `code`
\* of a callback: the users, and one party that is no user
Codes == Users \cup {"ghost"}

----------------------------------------------------------------------------
(* Values *)

None == "None"
Empty == ""
ExpAbsent == <<>>
AtNames == <<"at1", "at2", "at3", "at4", "at5", "at6">>
RtNames == <<"rt1", "rt2", "rt3", "rt4", "rt5", "rt6">>

\* timedelta(minutes=5), in seconds
MarginMinutes == 5
Margin == MarginMinutes * 60

\* The clock advances in steps of half the margin, and a token response
\* grants a margin and a half: a token is valid when issued, on the boundary
\* of the margin one step later, inside it after two steps and expired from
\* the third step on.
TickStep == Margin \div 2
ExpiresIns == {Margin + TickStep}
\* the expiry of the rows the table holds at the start, as a clock value
SeedExpiry == Margin + TickStep

ClearedRow == [at |-> None, rt |-> None, exp |-> ExpAbsent]
NoUser == [id |-> None, at |-> None, rt |-> None, exp |-> ExpAbsent]
NoTokenInfo == [id |-> 0, access_token |-> None, refresh_token |-> None, expires_in |-> 0]
NoResult == [status |-> 0, detail |-> "", token |-> None]

\* the rows of the users table: id and username
UsersTable ==
    {[id |-> "u1", username |-> "ann", google_id |-> "g1"],
     [id |-> "u2", username |-> "bob", google_id |-> "g2"],
     [id |-> "u3", username |-> "cy", google_id |-> "g3"]}
\* a request that is not served by a posts, users or notifications handler
NoRow == [id |-> None]
NoBody == [empty |-> TRUE]
NoLocal ==
    [current_user |-> None, arg |-> None, payload |-> None, row |-> NoRow,
     seen |-> None, exc |-> None, body |-> NoBody, before |-> None]

\* Python truthiness of an optional string: None and "" are falsy
Falsy(v) == v = None \/ v = Empty
\* truthiness of the optional expires_at column (a timestamp, or null)
FalsyExp(e) == e = ExpAbsent

\* datetime.isoformat() of an aware UTC datetime: the instant and its offset suffix
isoformat(t) == <<t, "+00:00">>
\* expires_at.replace("Z", "+00:00")
ReplaceZ(s) == IF s[2] = "Z" THEN <<s[1], "+00:00">> ELSE s
\* datetime.fromisoformat(...)
fromisoformat(s) == s[1]

----------------------------------------------------------------------------
(* get_user_spotify_client, lines 38-55: what the function decides from    *)
(* the in-memory user dict and the clock before any network call.          *)

\* line 50: expires_at <= now + timedelta(minutes=5)
IsNearExpiryFlipped(expires_at, t) == expires_at >= t + Margin
IsNearExpiryStrict(expires_at, t) == expires_at < t + Margin
IsNearExpiryNotPast(expires_at, t) == t <= expires_at /\ expires_at <= t + Margin
IsNearExpiry(expires_at, t) == expires_at <= t + Margin

\* lines 44-50: the stored expiry is present, parses, and is near
NeedsRefreshIgnoringAbsent(u, t) ==
    FalsyExp(u.exp) \/ IsNearExpiry(fromisoformat(ReplaceZ(u.exp)), t)
NeedsRefresh(u, t) ==
    /\ ~FalsyExp(u.exp)
    /\ IsNearExpiry(fromisoformat(ReplaceZ(u.exp)), t)

\* lines 38-55: "not_connected" (400), "reconnect" (401), "refresh" (go on
\* to the provider) or "use_stored" (line 92 with the stored token).
\* DecideNoConnectCheck is Decide without line 38, DecideNoRefreshTokenCheck
\* is Decide without lines 51-55.
DecideNoConnectCheck(u, t) ==
    IF NeedsRefresh(u, t)
    THEN IF Falsy(u.rt) THEN "reconnect" ELSE "refresh"
    ELSE "use_stored"
DecideNoRefreshTokenCheck(u, t) ==
    IF Falsy(u.at) THEN "not_connected"
    ELSE IF NeedsRefresh(u, t) THEN "refresh" ELSE "use_stored"
Decide(u, t) ==
    IF Falsy(u.at) THEN "not_connected"
    ELSE IF NeedsRefresh(u, t)
         THEN IF Falsy(u.rt) THEN "reconnect" ELSE "refresh"
         ELSE "use_stored"

\* spotify_callback lines 139-148: the update_data dict of a callback
callback_update_data_no_expiry(ti, t) ==
    [at |-> ti.access_token, rt |-> ti.refresh_token, exp |-> ExpAbsent]
callback_update_data(ti, t) ==
    [at |-> ti.access_token, rt |-> ti.refresh_token,
     exp |-> isoformat(t + ti.expires_in)]

\* lines 65-73: the update_data dict of a refresh
update_data_minutes(ti, t) ==
    [at |-> ti.access_token, rt |-> ti.refresh_token,
     exp |-> isoformat(t + ti.expires_in * 60)]
update_data_stale_refresh(ti, t) ==
    [at |-> ti.access_token, exp |-> isoformat(t + ti.expires_in)]
update_data(ti, t) ==
    [at |-> ti.access_token, rt |-> ti.refresh_token,
     exp |-> isoformat(t + ti.expires_in)]

\* lines 173-177: the update_data dict of a disconnect
disconnect_data == [at |-> None, rt |-> None, exp |-> ExpAbsent]

\* .update(update_data).eq("id", id).execute(): one statement sets every
\* column the dict names and leaves the other columns of the row alone
ApplyUpdate(row, data) ==
    [k \in DOMAIN row |-> IF k \in DOMAIN data THEN data[k] ELSE row[k]]

\* lines 82-84: the in-memory user dict after a refresh
MemUpdate(u, ti, exp) ==
    [u EXCEPT !.at = ti.access_token, !.rt = ti.refresh_token, !.exp = exp]

\* lines 86-90: `except Exception` turns a failed refresh into a 401
RefreshFailedUncaught == 500
RefreshFailedStatus == 401

\* lines 76-90: a store write that raises skips lines 82-84
UserAfterFailedWriteUpdated(u, ti, exp) == MemUpdate(u, ti, exp)
UserAfterFailedWrite(u, ti, exp) == u

----------------------------------------------------------------------------
(* The provider (Spotify accounts service)                                 *)

CanIssue == Len(provLog) < MaxIssue

\* A token response: the provider rotates its tokens, so the n-th response
\* carries a fresh access token and a fresh refresh token
Response(e) ==
    LET n == Len(provLog) + 1 IN
    [id |-> n, access_token |-> AtNames[n], refresh_token |-> RtNames[n],
     expires_in |-> e]

\* The provider's record of a response it gave
Issued(ti) ==
    [access_token |-> ti.access_token, refresh_token |-> ti.refresh_token,
     expires_in |-> ti.expires_in]

----------------------------------------------------------------------------
(* Requests                                                                *)

Finish(r, status, detail, token) ==
    /\ pc' = [pc EXCEPT ![r] = "done"]
    /\ result' = [result EXCEPT ![r] = [status |-> status, detail |-> detail, token |-> token]]

\* get_current_user (middleware/auth.py) for a request of user u that goes
\* on to handler step `next`
LoadUser(r, u, h, next) ==
    /\ pc[r] = "idle"
    /\ handler' = [handler EXCEPT ![r] = h]
    /\ user' = [user EXCEPT ![r] = [id |-> u, at |-> store[u].at, rt |-> store[u].rt, exp |-> store[u].exp]]
    /\ loaded' = [loaded EXCEPT ![r] = user'[r]]
    /\ after_disconnect' = [after_disconnect EXCEPT ![r] = lastWrite[u].cleared]
    /\ pc' = [pc EXCEPT ![r] = next]
    /\ UNCHANGED <<now, store, provLog, lastWrite, req_now, cbState, code, token_info, trace, written, result>>
    /\ UNCHANGED socialVars

\* A Spotify data endpoint (search_tracks, get_track, get_user_playlists,
\* get_currently_playing, get_top_tracks): Depends(get_current_user)
api_get_current_user(r, u) == LoadUser(r, u, "api", "resolve")

\* get_user_spotify_client lines 38-62: the checks, then the refresh call
get_user_spotify_client_resolve(r) ==
    /\ pc[r] = "resolve"
    /\ req_now' = [req_now EXCEPT ![r] = IF FalsyExp(user[r].exp) \/ Falsy(user[r].at) THEN -1 ELSE now]
    /\ LET d == Decide(user[r], now) IN
       \/ /\ d = "not_connected"
          /\ Finish(r, 400, "Spotify not connected", None)
          /\ UNCHANGED <<provLog, lastWrite, token_info, trace>>
       \/ /\ d = "use_stored"
          /\ Finish(r, 200, "ok", user[r].at)
          /\ UNCHANGED <<provLog, lastWrite, token_info, trace>>
       \/ /\ d = "reconnect"
          /\ Finish(r, 401, "no refresh token", None)
          /\ lastWrite' = [lastWrite EXCEPT ![user[r].id].failed = TRUE]
          /\ UNCHANGED <<provLog, token_info, trace>>
       \/ /\ d = "refresh"
          /\ trace' = [trace EXCEPT ![r] = Append(@, "refresh")]
          /\ \/ \* refresh_access_token raises
                /\ Finish(r, RefreshFailedStatus, "refresh failed", None)
                /\ lastWrite' = [lastWrite EXCEPT ![user[r].id].failed = TRUE]
                /\ UNCHANGED <<provLog, token_info>>
             \/ \* refresh_access_token returns token_info
                /\ CanIssue
                /\ \E e \in ExpiresIns :
                     LET ti == Response(e) IN
                     /\ provLog' = Append(provLog, Issued(ti))
                     /\ token_info' = [token_info EXCEPT ![r] = ti]
                /\ pc' = [pc EXCEPT ![r] = "persist"]
                /\ UNCHANGED <<lastWrite, result>>
    /\ UNCHANGED <<now, store, handler, user, loaded, after_disconnect, cbState, code, written>>
    /\ UNCHANGED socialVars

\* get_user_spotify_client lines 65-92, called with `supabase` given or not:
\* build update_data, write it to the store, update the user dict, return
persist(r, supabase) ==
    /\ pc[r] = "persist"
    /\ LET ti == token_info[r]
           data == update_data(ti, now)
           exp == isoformat(now + ti.expires_in)
           u == user[r].id
       IN
       IF supabase
       THEN \/ \* the update executes
               /\ store' = [store EXCEPT ![u] = ApplyUpdate(@, data)]
               /\ lastWrite' = [lastWrite EXCEPT ![u] = [@ EXCEPT !.id = ti.id, !.failed = FALSE]]
               /\ written' = [written EXCEPT ![r] = Append(@, data)]
               /\ trace' = [trace EXCEPT ![r] = @ \o <<"write", "mem">>]
               /\ user' = [user EXCEPT ![r] = MemUpdate(@, ti, exp)]
               /\ Finish(r, 200, "ok", user'[r].at)
            \/ \* the update raises: except Exception, line 86
               /\ trace' = [trace EXCEPT ![r] = Append(@, "write_failed")]
               /\ user' = [user EXCEPT ![r] = UserAfterFailedWrite(@, ti, exp)]
               /\ Finish(r, RefreshFailedStatus, "refresh failed", None)
               /\ UNCHANGED <<store, lastWrite, written>>
       ELSE /\ trace' = [trace EXCEPT ![r] = Append(@, "mem")]
            /\ user' = [user EXCEPT ![r] = MemUpdate(@, ti, exp)]
            /\ Finish(r, 200, "ok", user'[r].at)
            /\ UNCHANGED <<store, lastWrite, written>>
    /\ UNCHANGED <<now, provLog, handler, req_now, loaded, after_disconnect, cbState, code, token_info>>
    /\ UNCHANGED socialVars

\* the endpoints pass their store client: get_user_spotify_client(current_user, supabase)
PassesClient == TRUE

get_user_spotify_client_persist(r) == persist(r, PassesClient)

\* disconnect_spotify: Depends(get_current_user)
disconnect_get_current_user(r, u) == LoadUser(r, u, "disconnect", "clear")

\* disconnect_spotify lines 173-181
disconnect_spotify(r) ==
    /\ pc[r] = "clear"
    /\ LET u == user[r].id IN
       \/ \* the update executes
          /\ store' = [store EXCEPT ![u] = ApplyUpdate(@, disconnect_data)]
          /\ lastWrite' = [lastWrite EXCEPT ![u] = [id |-> 0, cleared |-> TRUE, failed |-> FALSE]]
          /\ written' = [written EXCEPT ![r] = Append(@, disconnect_data)]
          /\ trace' = [trace EXCEPT ![r] = Append(@, "write")]
          /\ Finish(r, 200, "disconnected", None)
       \/ \* the update raises: general_exception_handler
          /\ trace' = [trace EXCEPT ![r] = Append(@, "write_failed")]
          /\ Finish(r, 500, "Internal server error", None)
          /\ UNCHANGED <<store, lastWrite, written>>
    /\ UNCHANGED <<now, provLog, handler, req_now, user, loaded, after_disconnect, cbState, code, token_info>>
    /\ UNCHANGED socialVars

\* spotify_callback lines 113-137: the authorization-code exchange, then
\* sp.current_user() with the new access token (two calls to the provider,
\* nothing of the program's state changes between them)
spotify_callback_exchange(r, cd, st) ==
    /\ pc[r] = "idle"
    /\ handler' = [handler EXCEPT ![r] = "callback"]
    /\ cbState' = [cbState EXCEPT ![r] = st]
    /\ code' = [code EXCEPT ![r] = cd]
    /\ \/ \* get_access_token raises
          /\ trace' = [trace EXCEPT ![r] = Append(@, "exchange")]
          /\ Finish(r, 400, "Failed to get access token", None)
          /\ UNCHANGED <<provLog, token_info>>
       \/ /\ CanIssue
          /\ \E e \in ExpiresIns :
               LET ti == Response(e) IN
               /\ provLog' = Append(provLog, Issued(ti))
               /\ token_info' = [token_info EXCEPT ![r] = ti]
          /\ trace' = [trace EXCEPT ![r] = @ \o <<"exchange", "userinfo">>]
          /\ \/ \* current_user() raises, or answers without an id
                Finish(r, 500, "Failed to get Spotify user info", None)
             \/ /\ pc' = [pc EXCEPT ![r] = "cbwrite"]
                /\ UNCHANGED result
    /\ UNCHANGED <<now, store, lastWrite, req_now, user, loaded, after_disconnect, written>>
    /\ UNCHANGED socialVars

\* spotify_callback lines 139-164: the update of the row whose id is `state`
spotify_callback_write(r) ==
    /\ pc[r] = "cbwrite"
    /\ LET ti == token_info[r]
           data == callback_update_data(ti, now)
           st == cbState[r]
       IN
       \/ \* the update executes and matches the row
          /\ st \in Users
          /\ store' = [store EXCEPT ![st] = ApplyUpdate(@, data)]
          /\ lastWrite' = [lastWrite EXCEPT ![st] = [id |-> ti.id, cleared |-> FALSE, failed |-> FALSE]]
          /\ written' = [written EXCEPT ![r] = Append(@, data)]
          /\ trace' = [trace EXCEPT ![r] = Append(@, "write")]
          /\ Finish(r, 200, "connected", None)
       \/ \* the update executes and matches no row: result.data is empty
          /\ st \notin Users
          /\ trace' = [trace EXCEPT ![r] = Append(@, "write_nomatch")]
          /\ Finish(r, 404, "User not found", None)
          /\ UNCHANGED <<store, lastWrite, written>>
       \/ \* the update raises: general_exception_handler
          /\ trace' = [trace EXCEPT ![r] = Append(@, "write_failed")]
          /\ Finish(r, 500, "Internal server error", None)
          /\ UNCHANGED <<store, lastWrite, written>>
    /\ UNCHANGED <<now, provLog, handler, req_now, user, loaded, after_disconnect, cbState, code, token_info>>
    /\ UNCHANGED socialVars

\* The response has been sent; the slot serves the next request
Respond(r) ==
    /\ pc[r] = "done"
    /\ pc' = [pc EXCEPT ![r] = "idle"]
    /\ handler' = [handler EXCEPT ![r] = "none"]
    /\ req_now' = [req_now EXCEPT ![r] = -1]
    /\ user' = [user EXCEPT ![r] = NoUser]
    /\ loaded' = [loaded EXCEPT ![r] = NoUser]
    /\ after_disconnect' = [after_disconnect EXCEPT ![r] = FALSE]
    /\ cbState' = [cbState EXCEPT ![r] = None]
    /\ code' = [code EXCEPT ![r] = None]
    /\ local' = [local EXCEPT ![r] = NoLocal]
    /\ token_info' = [token_info EXCEPT ![r] = NoTokenInfo]
    /\ trace' = [trace EXCEPT ![r] = <<>>]
    /\ written' = [written EXCEPT ![r] = <<>>]
    /\ result' = [result EXCEPT ![r] = NoResult]
    /\ UNCHANGED <<now, store, provLog, lastWrite, users, posts, follows, notifications, serial>>

\* Wall-clock time passes
Tick ==
    /\ now < MaxTicks * TickStep
    /\ now' = now + TickStep
    /\ UNCHANGED <<store, provLog, lastWrite, handler, pc, req_now, user, loaded, after_disconnect, cbState, code, token_info, trace, written, result>>
    /\ UNCHANGED socialVars

----------------------------------------------------------------------------
(* Specifications                                                          *)

InitRequests ==
    /\ handler = [r \in Reqs |-> "none"]
    /\ pc = [r \in Reqs |-> "idle"]
    /\ req_now = [r \in Reqs |-> -1]
    /\ user = [r \in Reqs |-> NoUser]
    /\ loaded = [r \in Reqs |-> NoUser]
    /\ after_disconnect = [r \in Reqs |-> FALSE]
    /\ cbState = [r \in Reqs |-> None]
    /\ code = [r \in Reqs |-> None]
    /\ local = [r \in Reqs |-> NoLocal]
    /\ token_info = [r \in Reqs |-> NoTokenInfo]
    /\ trace = [r \in Reqs |-> <<>>]
    /\ written = [r \in Reqs |-> <<>>]
    /\ result = [r \in Reqs |-> NoResult]

\* The users have signed in; nobody has posted, followed or been notified
NoContent ==
    /\ users = UsersTable
    /\ posts = {}
    /\ follows = {}
    /\ notifications = {}
    /\ serial = [posts |-> 0, follows |-> 0]

\* Every user has signed in (google_sign_in inserts the row without any
\* spotify column) and nobody has connected yet
Init ==
    /\ now = 0
    /\ store = [u \in Users |-> ClearedRow]
    /\ provLog = <<>>
    /\ lastWrite = [u \in Users |-> [id |-> 0, cleared |-> FALSE, failed |-> FALSE]]
    /\ InitRequests
    /\ NoContent

\* One step of the request in slot r; the callbacks are those of flows in
\* which the party named by `state` has authorized at the provider itself
Step(r) ==
    \/ \E u \in Users : api_get_current_user(r, u)
    \/ get_user_spotify_client_resolve(r)
    \/ get_user_spotify_client_persist(r)
    \/ \E u \in Users : disconnect_get_current_user(r, u)
    \/ disconnect_spotify(r)
    \/ \E st \in StateIds : spotify_callback_exchange(r, st, st)
    \/ spotify_callback_write(r)
    \/ Respond(r)

\* Requests are served concurrently
Next ==
    \/ \E r \in Reqs : Step(r)
    \/ Tick

Spec == Init /\ [][Next]_vars

\* The rows the users table can hold: its three spotify columns are
\* nullable independently of each other
SeedRows ==
    [at : {None, Empty, "at0"},
     rt : {None, Empty, "rt0"},
     exp : {ExpAbsent, <<SeedExpiry, "Z">>, <<SeedExpiry, "+00:00">>}]

\* get_user_spotify_client on any row of the table, one request at a time
InitRows ==
    /\ now = 0
    /\ store \in [Users -> SeedRows]
    /\ provLog = <<>>
    /\ lastWrite = [u \in Users |-> [id |-> -1, cleared |-> FALSE, failed |-> FALSE]]
    /\ InitRequests
    /\ NoContent

NextSeq ==
    \/ Step(1)
    \/ Tick

SpecRows == InitRows /\ [][NextSeq]_vars

\* The callback is open to anybody: it takes `code` and `state` from the
\* query string and has no Depends(get_current_user). One request at a
\* time, with a callback for any pair of the two.
StepAnyCaller(r) ==
    \/ \E u \in Users : api_get_current_user(r, u)
    \/ get_user_spotify_client_resolve(r)
    \/ get_user_spotify_client_persist(r)
    \/ \E u \in Users : disconnect_get_current_user(r, u)
    \/ disconnect_spotify(r)
    \/ \E cd \in Codes, st \in StateIds : spotify_callback_exchange(r, cd, st)
    \/ spotify_callback_write(r)
    \/ Respond(r)

NextAnyCaller ==
    \/ StepAnyCaller(1)
    \/ Tick

SpecAnyCaller == Init /\ [][NextAnyCaller]_vars

----------------------------------------------------------------------------
(* The posts and notifications routes (src/src/posts/routes.py,            *)
(* src/src/notifications/routes.py)                                        *)

\* what the Spotify routes own
spotifyVars == <<now, store, provLog, lastWrite, req_now, user, loaded, after_disconnect,
                 cbState, code, token_info, written>>

\* the users that post and are notified
PostCallers == {"u1", "u2"}
\* ids the posts table hands out, in order
PostNames == <<"p1", "p2", "p3", "p4">>
PostIds == {PostNames[i] : i \in 1..MaxPosts}
\* the notifications the table holds at the start, and the ids a request may
\* name: theirs and one that no row has
SeedNotifications ==
    {[id |-> "n1", user_id |-> "u1", is_read |-> FALSE],
     [id |-> "n2", user_id |-> "u2", is_read |-> FALSE]}
NotificationIds == {"n1", "n2", "n3"}
\* texts of the exceptions a store call raises
ExcTexts == {"timeout", "refused"}

\* the handler returns, or raises an HTTPException
End(r, status, detail, loc) ==
    /\ pc' = [pc EXCEPT ![r] = "done"]
    /\ result' = [result EXCEPT ![r] = [status |-> status, detail |-> detail, token |-> None]]
    /\ local' = [local EXCEPT ![r] = loc]

\* general_exception_handler: an exception with text m that no handler
\* caught; the text goes to the log only (kept in local.exc)
general_exception_handler(r, m) ==
    /\ End(r, 500, "Internal server error", [local[r] EXCEPT !.exc = m])
    /\ trace' = [trace EXCEPT ![r] = Append(@, "raise")]

\* A request of user u arrives at handler h: Depends(get_current_user) has
\* loaded the caller and the parameters are bound
Begin(r, u, h, next, arg, payload) ==
    /\ pc[r] = "idle"
    /\ handler' = [handler EXCEPT ![r] = h]
    /\ pc' = [pc EXCEPT ![r] = next]
    /\ local' = [local EXCEPT ![r] =
                   [NoLocal EXCEPT !.current_user = u, !.arg = arg, !.payload = payload]]
    /\ UNCHANGED <<result, trace, users, posts, follows, notifications, serial>>
    /\ UNCHANGED spotifyVars

\* what the table holds under the id a request names, for the caller: a row
\* of the caller, a row of somebody else, or no row
Seen(rows, id, caller) ==
    IF \E p \in rows : p.id = id /\ p.user_id = caller THEN "own"
    ELSE IF \E p \in rows : p.id = id THEN "other"
    ELSE "absent"

\* .eq("id", post_id).eq("user_id", current_user["id"])
MatchAnyOwner(row, id, caller) == row.id = id
Match(row, id, caller) == row.id = id /\ row.user_id = caller

\* the 404 of a handler
NotFoundDetail(h) ==
    CASE h = "update_post" -> "Post not found or you don't have permission to edit it"
      [] h = "delete_post" -> "Post not found or you don't have permission to delete it"
      [] h = "delete_notification"
           -> "Notification not found or you don't have permission to delete it"

\* create_post, lines 54-68
create_post_request(r, u, caption) ==
    Begin(r, u, "create_post", "insert", None, caption)

\* create_post, lines 70-78: the insert
create_post_insert(r) ==
    /\ pc[r] = "insert"
    /\ \/ \* the row is inserted and returned
          /\ serial.posts < MaxPosts
          /\ LET row == [id |-> PostNames[serial.posts + 1],
                         user_id |-> local[r].current_user,
                         track |-> "t1",
                         caption |-> local[r].payload,
                         is_expired |-> FALSE,
                         created_at |-> serial.posts + 1]
             IN /\ posts' = posts \cup {row}
                /\ local' = [local EXCEPT ![r].row = row]
          /\ serial' = [serial EXCEPT !.posts = @ + 1]
          /\ trace' = [trace EXCEPT ![r] = Append(@, "insert")]
          /\ pc' = [pc EXCEPT ![r] = "format"]
          /\ UNCHANGED result
       \/ \* the insert answers without data
          /\ End(r, 500, "Failed to create post", local[r])
          /\ trace' = [trace EXCEPT ![r] = Append(@, "insert_nodata")]
          /\ UNCHANGED <<posts, serial>>
       \/ \* the insert raises
          /\ \E m \in ExcTexts : general_exception_handler(r, m)
          /\ UNCHANGED <<posts, serial>>
    /\ UNCHANGED <<handler, users, follows, notifications>>
    /\ UNCHANGED spotifyVars

\* create_post line 79 when format_post_with_user raises: the handler has no
\* except clause and no delete
PostsAfterFailedFormatCompensated(rows, row) == rows \ {row}
PostsAfterFailedFormat(rows, row) == rows

\* format_post_with_user, lines 25-50, for the post row the handler holds
format_post_with_user(r) ==
    /\ pc[r] = "format"
    /\ LET row == local[r].row IN
       \/ \* the author is found
          /\ \E a \in users :
                /\ a.id = row.user_id
                /\ End(r, IF handler[r] = "create_post" THEN 201 ELSE 200, "ok",
                       [local[r] EXCEPT !.body = [post |-> row, user |-> a.username]])
          /\ trace' = [trace EXCEPT ![r] = Append(@, "lookup")]
          /\ UNCHANGED posts
       \/ \* the lookup raises
          /\ \E m \in ExcTexts : general_exception_handler(r, m)
          /\ posts' = PostsAfterFailedFormat(posts, row)
    /\ UNCHANGED <<handler, users, follows, notifications, serial>>
    /\ UNCHANGED spotifyVars

\* the select of update_post (lines 169-182) and of delete_post (209-222)
SelectOwnPost(r, next) ==
    /\ pc[r] = "select"
    /\ LET id == local[r].arg
           caller == local[r].current_user
           found == {p \in posts : Match(p, id, caller)}
       IN
       \/ \* the select answers
          /\ trace' = [trace EXCEPT ![r] = Append(@, "select")]
          /\ IF found = {}
             THEN End(r, 404, NotFoundDetail(handler[r]),
                      [local[r] EXCEPT !.seen = Seen(posts, id, caller)])
             ELSE /\ local' = [local EXCEPT ![r] =
                                 [@ EXCEPT !.seen = Seen(posts, id, caller),
                                           !.row = CHOOSE p \in found : TRUE]]
                  /\ pc' = [pc EXCEPT ![r] = next]
                  /\ UNCHANGED result
       \/ \* the select raises
          \E m \in ExcTexts : general_exception_handler(r, m)
    /\ UNCHANGED <<handler, users, posts, follows, notifications, serial>>
    /\ UNCHANGED spotifyVars

\* update_post, lines 161-166
update_post_request(r, u, post_id, caption) ==
    Begin(r, u, "update_post", "select", post_id, caption)

\* update_post, lines 169-182
update_post_select(r) == handler[r] = "update_post" /\ SelectOwnPost(r, "update")

\* .eq("id", post_id) of the update and of the delete
EveryRow(rows, id) == rows
RowsWithId(rows, id) == {p \in rows : p.id = id}

\* update_post, lines 185-196: .update(...).eq("id", post_id)
update_post_update(r) ==
    /\ pc[r] = "update"
    /\ LET id == local[r].arg
           hit == RowsWithId(posts, id)
           new == {[p EXCEPT !.caption = local[r].payload] : p \in hit}
       IN
       \/ \* the update answers
          /\ posts' = (posts \ hit) \cup new
          /\ trace' = [trace EXCEPT ![r] = Append(@, "update")]
          /\ IF new = {}
             THEN End(r, 500, "Failed to update post", local[r])
             ELSE /\ local' = [local EXCEPT ![r].row = CHOOSE p \in new : TRUE]
                  /\ pc' = [pc EXCEPT ![r] = "format"]
                  /\ UNCHANGED result
       \/ \* the update raises
          /\ \E m \in ExcTexts : general_exception_handler(r, m)
          /\ UNCHANGED posts
    /\ UNCHANGED <<handler, users, follows, notifications, serial>>
    /\ UNCHANGED spotifyVars

\* delete_post, lines 202-206
delete_post_request(r, u, post_id) ==
    Begin(r, u, "delete_post", "select", post_id, None)

\* delete_post, lines 209-222
delete_post_select(r) == handler[r] = "delete_post" /\ SelectOwnPost(r, "delete")

\* delete_post, lines 225-227: .delete().eq("id", post_id)
delete_post_delete(r) ==
    /\ pc[r] = "delete"
    /\ \/ \* the delete answers
          /\ posts' = posts \ RowsWithId(posts, local[r].arg)
          /\ trace' = [trace EXCEPT ![r] = Append(@, "delete")]
          /\ End(r, 204, "", local[r])
       \/ \* the delete raises
          /\ \E m \in ExcTexts : general_exception_handler(r, m)
          /\ UNCHANGED posts
    /\ UNCHANGED <<handler, users, follows, notifications, serial>>
    /\ UNCHANGED spotifyVars

\* delete_notification, lines 94-98
delete_notification_request(r, u, notification_id) ==
    Begin(r, u, "delete_notification", "delete_notification", notification_id, None)

\* delete_notification, lines 100-114: one delete filtered by id and owner
delete_notification(r) ==
    /\ pc[r] = "delete_notification"
    /\ LET id == local[r].arg
           caller == local[r].current_user
           gone == {n \in notifications : Match(n, id, caller)}
       IN
       \/ \* the delete answers
          /\ notifications' = notifications \ gone
          /\ trace' = [trace EXCEPT ![r] = Append(@, "delete")]
          /\ End(r, IF gone = {} THEN 404 ELSE 204,
                 IF gone = {} THEN NotFoundDetail(handler[r]) ELSE "",
                 [local[r] EXCEPT !.seen = Seen(notifications, id, caller)])
       \/ \* the delete raises
          /\ \E m \in ExcTexts : general_exception_handler(r, m)
          /\ UNCHANGED notifications
    /\ UNCHANGED <<handler, users, posts, follows, serial>>
    /\ UNCHANGED spotifyVars

\* No Spotify request is in flight and nobody is connected
SpotifyIdle ==
    /\ now = 0
    /\ store = [u \in Users |-> ClearedRow]
    /\ provLog = <<>>
    /\ lastWrite = [u \in Users |-> [id |-> 0, cleared |-> FALSE, failed |-> FALSE]]
    /\ InitRequests

\* The users have signed in and have been notified once each; no posts yet
InitPosts ==
    /\ SpotifyIdle
    /\ users = UsersTable
    /\ posts = {}
    /\ follows = {}
    /\ notifications = SeedNotifications
    /\ serial = [posts |-> 0, follows |-> 0]

StepPosts(r) ==
    \/ \E u \in PostCallers : create_post_request(r, u, "c1")
    \/ create_post_insert(r)
    \/ format_post_with_user(r)
    \/ \E u \in PostCallers, id \in PostIds : update_post_request(r, u, id, "c2")
    \/ update_post_select(r)
    \/ update_post_update(r)
    \/ \E u \in PostCallers, id \in PostIds : delete_post_request(r, u, id)
    \/ delete_post_select(r)
    \/ delete_post_delete(r)
    \/ \E u \in PostCallers, id \in NotificationIds : delete_notification_request(r, u, id)
    \/ delete_notification(r)
    \/ Respond(r)

\* A post expires: is_expired is set outside this service, which only
\* reads it
post_expires ==
    /\ \E p \in posts :
          /\ ~p.is_expired
          /\ posts' = (posts \ {p}) \cup {[p EXCEPT !.is_expired = TRUE]}
    /\ UNCHANGED <<handler, pc, local, result, trace, users, follows,
                   notifications, serial>>
    /\ UNCHANGED spotifyVars

\* The requests are served one at a time
NextPosts == StepPosts(1) \/ post_expires

SpecPosts == InitPosts /\ [][NextPosts]_vars

(***************************************************************************)
(* The follow route (src/users/routes.py)                                  *)
(***************************************************************************)

FollowCallers == {"u1", "u2"}
\* "zed" is the username of nobody
Usernames == {"bob", "cy", "zed"}

\* .eq("following_id", target_user_id) with count="exact"
FollowedBy(rows, target) == {f \in rows : f.follower_id = target}
FollowersOf(rows, target) == {f \in rows : f.following_id = target}

\* .eq("follower_id", current_user["id"]).eq("following_id", target_user_id)
FollowRows(rows, follower, target) ==
    {f \in rows : f.follower_id = follower /\ f.following_id = target}

\* follow_user, lines 174-179
follow_user_request(r, u, username) ==
    Begin(r, u, "follow_user", "target", username, None)

\* follow_user, lines 181-197: the target is looked up by username, then
\* compared with the caller
follow_user_target(r) ==
    /\ handler[r] = "follow_user"
    /\ pc[r] = "target"
    /\ LET found == {a \in users : a.username = local[r].arg} IN
       \/ \* the select answers
          /\ trace' = [trace EXCEPT ![r] = Append(@, "target")]
          /\ IF found = {}
             THEN End(r, 404, "User not found", local[r])
             ELSE LET target == CHOOSE a \in found : TRUE
                      loc == [local[r] EXCEPT !.row = target]
                  IN IF target.id = local[r].current_user
                     THEN End(r, 400, "You cannot follow yourself", loc)
                     ELSE /\ local' = [local EXCEPT ![r] = loc]
                          /\ pc' = [pc EXCEPT ![r] = "existing"]
                          /\ UNCHANGED result
       \/ \* the select raises
          \E m \in ExcTexts : general_exception_handler(r, m)
    /\ UNCHANGED <<handler, users, posts, follows, notifications, serial>>
    /\ UNCHANGED spotifyVars

\* follow_user, lines 199-212: is there a follow row already
follow_user_existing(r) ==
    /\ handler[r] = "follow_user"
    /\ pc[r] = "existing"
    /\ LET existing_follow ==
               FollowRows(follows, local[r].current_user, local[r].row.id) IN
       \/ \* the select answers
          /\ trace' = [trace EXCEPT ![r] = Append(@, "existing")]
          /\ IF existing_follow # {}
             THEN End(r, 400, "Already following this user",
                      [local[r] EXCEPT !.seen = "following"])
             ELSE /\ local' = [local EXCEPT ![r] =
                                 [@ EXCEPT !.seen = "not_following",
                                           !.before = follows]]
                  /\ pc' = [pc EXCEPT ![r] = "insert"]
                  /\ UNCHANGED result
       \/ \* the select raises
          \E m \in ExcTexts : general_exception_handler(r, m)
    /\ UNCHANGED <<handler, users, posts, follows, notifications, serial>>
    /\ UNCHANGED spotifyVars

\* follow_user, lines 214-217: the insert
follow_user_insert(r) ==
    /\ handler[r] = "follow_user"
    /\ pc[r] = "insert"
    /\ \/ \* the row is inserted
          /\ serial.follows < MaxFollows
          /\ follows' = follows \cup
                 {[id |-> serial.follows + 1,
                   follower_id |-> local[r].current_user,
                   following_id |-> local[r].row.id]}
          /\ serial' = [serial EXCEPT !.follows = @ + 1]
          /\ trace' = [trace EXCEPT ![r] = Append(@, "insert")]
          /\ pc' = [pc EXCEPT ![r] = "count"]
          /\ UNCHANGED <<result, local>>
       \/ \* the insert raises
          /\ \E m \in ExcTexts : general_exception_handler(r, m)
          /\ UNCHANGED <<follows, serial>>
    /\ UNCHANGED <<handler, users, posts, notifications>>
    /\ UNCHANGED spotifyVars

\* follow_user, lines 219-227: the followers are counted and returned
follow_user_count(r) ==
    /\ handler[r] = "follow_user"
    /\ pc[r] = "count"
    /\ \/ \* the count answers
          /\ trace' = [trace EXCEPT ![r] = Append(@, "count")]
          /\ End(r, 200, "ok",
                 [local[r] EXCEPT !.body =
                     [is_following |-> TRUE,
                      followers_count |->
                          Cardinality(FollowersOf(follows, local[r].row.id))]])
       \/ \* the count raises
          \E m \in ExcTexts : general_exception_handler(r, m)
    /\ UNCHANGED <<handler, users, posts, follows, notifications, serial>>
    /\ UNCHANGED spotifyVars

\* unfollow_user, lines 230-235
unfollow_user_request(r, u, username) ==
    Begin(r, u, "unfollow_user", "target", username, None)

\* unfollow_user, lines 237-247: the target is looked up by username
unfollow_user_target(r) ==
    /\ handler[r] = "unfollow_user"
    /\ pc[r] = "target"
    /\ LET found == {a \in users : a.username = local[r].arg} IN
       \/ \* the select answers
          /\ trace' = [trace EXCEPT ![r] = Append(@, "target")]
          /\ IF found = {}
             THEN End(r, 404, "User not found", local[r])
             ELSE /\ local' = [local EXCEPT ![r].row = CHOOSE a \in found : TRUE]
                  /\ pc' = [pc EXCEPT ![r] = "delete"]
                  /\ UNCHANGED result
       \/ \* the select raises
          \E m \in ExcTexts : general_exception_handler(r, m)
    /\ UNCHANGED <<handler, users, posts, follows, notifications, serial>>
    /\ UNCHANGED spotifyVars

\* the rows a delete filtered by follower and target leaves
FollowsAfterDeleteByFollower(rows, follower, target) ==
    {f \in rows : f.follower_id # follower}
FollowsAfterDelete(rows, follower, target) ==
    rows \ FollowRows(rows, follower, target)

\* unfollow_user, lines 249-262: the delete, which returns the deleted rows
unfollow_user_delete(r) ==
    /\ handler[r] = "unfollow_user"
    /\ pc[r] = "delete"
    /\ LET caller == local[r].current_user
           target == local[r].row.id
           deleted == FollowRows(follows, caller, target)
       IN
       \/ \* the delete answers
          /\ follows' = FollowsAfterDelete(follows, caller, target)
          /\ trace' = [trace EXCEPT ![r] = Append(@, "delete")]
          /\ IF deleted = {}
             THEN End(r, 400, "You are not following this user",
                      [local[r] EXCEPT !.seen = "not_following"])
             ELSE /\ local' = [local EXCEPT ![r].seen = "following"]
                  /\ pc' = [pc EXCEPT ![r] = "count"]
                  /\ UNCHANGED result
       \/ \* the delete raises
          /\ \E m \in ExcTexts : general_exception_handler(r, m)
          /\ UNCHANGED follows
    /\ UNCHANGED <<handler, users, posts, notifications, serial>>
    /\ UNCHANGED spotifyVars

\* unfollow_user, lines 264-272: the followers are counted and returned
unfollow_user_count(r) ==
    /\ handler[r] = "unfollow_user"
    /\ pc[r] = "count"
    /\ \/ \* the count answers
          /\ trace' = [trace EXCEPT ![r] = Append(@, "count")]
          /\ End(r, 200, "ok",
                 [local[r] EXCEPT !.body =
                     [is_following |-> FALSE,
                      followers_count |->
                          Cardinality(FollowersOf(follows, local[r].row.id))]])
       \/ \* the count raises
          \E m \in ExcTexts : general_exception_handler(r, m)
    /\ UNCHANGED <<handler, users, posts, follows, notifications, serial>>
    /\ UNCHANGED spotifyVars

\* The users have signed in; nobody follows anybody
InitFollows ==
    /\ SpotifyIdle
    /\ NoContent

StepFollows(r) ==
    \/ \E u \in FollowCallers, n \in Usernames : follow_user_request(r, u, n)
    \/ follow_user_target(r)
    \/ follow_user_existing(r)
    \/ follow_user_insert(r)
    \/ follow_user_count(r)
    \/ Respond(r)

NextFollows == \E r \in Reqs : StepFollows(r)

SpecFollows == InitFollows /\ [][NextFollows]_vars

\* follow_user and unfollow_user requests that name a user of the set names
StepFollowUnfollow(r, names) ==
    \/ \E u \in FollowCallers, n \in names : follow_user_request(r, u, n)
    \/ follow_user_target(r)
    \/ follow_user_existing(r)
    \/ follow_user_insert(r)
    \/ follow_user_count(r)
    \/ \E u \in FollowCallers, n \in names : unfollow_user_request(r, u, n)
    \/ unfollow_user_target(r)
    \/ unfollow_user_delete(r)
    \/ unfollow_user_count(r)
    \/ Respond(r)

\* Two requests at a time, every interleaving of their store calls, all
\* about the one user bob
RaceNames == {"bob"}
NextFollowRace == \E r \in Reqs : StepFollowUnfollow(r, RaceNames)
SpecFollowRace == InitFollows /\ [][NextFollowRace]_vars

\* One request at a time: a request starts only when no other is being
\* served; a finished one keeps its response until it is sent
OthersAtRest(r) == \A q \in Reqs \ {r} : pc[q] \in {"idle", "done"}
KnownNames == {"bob", "cy"}
NextUnfollow == \E r \in Reqs : OthersAtRest(r) /\ StepFollowUnfollow(r, KnownNames)
SpecUnfollow == InitFollows /\ [][NextUnfollow]_vars

(***************************************************************************)
(* Sign-in (src/auth/routes.py)                                            *)
(***************************************************************************)

MaxUsers == 3

\* The ID tokens a client may send: two that verify, for the Google
\* accounts g1 and g2, one of another issuer, and one that does not verify
IdTokens == {"tok_g1", "tok_g2", "tok_iss", "tok_bad"}

\* idinfo["sub"] of a token that verifies
Sub(tok) == IF tok = "tok_g1" THEN "g1" ELSE "g2"

\* idinfo["iss"] not in ["accounts.google.com", "https://accounts.google.com"]
ForeignIssuer(tok) == tok = "tok_iss"

\* email.split("@")[0] + "_" + google_id[:8]
UsernameOf(g) == IF g = "g1" THEN "ann" ELSE "bob"

\* the id the store gives to the next users row
UserIdNames == <<"u1", "u2", "u3", "u4", "u5">>
NextUserId(rows) == UserIdNames[Cardinality(rows) + 1]

\* detail=f"Invalid ID token: {str(e)}"
InvalidIdToken(m) ==
    IF m = "timeout" THEN "Invalid ID token: timeout" ELSE "Invalid ID token: refused"

\* detail=f"Authentication failed: {str(e)}"
AuthenticationFailed(m) ==
    IF m = "timeout" THEN "Authentication failed: timeout"
    ELSE "Authentication failed: refused"

\* str(e) of an HTTPException raised inside the try block: the status and
\* the detail, or nothing, depending on the version of the framework
AuthenticationFailedHTTP(status_code, detail) ==
    {"Authentication failed: ",
     IF status_code = 401 THEN "Authentication failed: 401: Invalid token issuer"
     ELSE "Authentication failed: 500: Failed to create user"}

\* google_sign_in, lines 87-91: except Exception, for an exception with
\* text m that is not a ValueError and not an HTTPException
google_sign_in_except(r, m) ==
    /\ End(r, 500, AuthenticationFailed(m), [local[r] EXCEPT !.exc = m])
    /\ trace' = [trace EXCEPT ![r] = Append(@, "raise")]

\* google_sign_in, lines 87-91, for an HTTPException the try block raised
\* itself: it is an Exception too
google_sign_in_except_http(r, status_code, detail) ==
    /\ \E d \in AuthenticationFailedHTTP(status_code, detail) : End(r, 500, d, local[r])
    /\ trace' = [trace EXCEPT ![r] = Append(@, "reraise")]

\* google_sign_in, lines 27-30; no caller is authenticated yet
google_sign_in_request(r, tok) ==
    Begin(r, None, "google_sign_in", "verify", tok, None)

\* google_sign_in, lines 33-45: the token is verified against the
\* certificates of the issuer, which are fetched
google_sign_in_verify(r) ==
    /\ handler[r] = "google_sign_in"
    /\ pc[r] = "verify"
    /\ LET tok == local[r].arg IN
       \/ \* the verification answers
          IF tok = "tok_bad"
          THEN \* ValueError, lines 82-86
               /\ \E m \in ExcTexts : End(r, 401, InvalidIdToken(m), local[r])
               /\ trace' = [trace EXCEPT ![r] = Append(@, "invalid")]
          ELSE IF ForeignIssuer(tok)
          THEN google_sign_in_except_http(r, 401, "Invalid token issuer")
          ELSE /\ local' = [local EXCEPT ![r].seen = Sub(tok)]
               /\ trace' = [trace EXCEPT ![r] = Append(@, "verify")]
               /\ pc' = [pc EXCEPT ![r] = "select"]
               /\ UNCHANGED result
       \/ \* the certificates cannot be fetched
          \E m \in ExcTexts : google_sign_in_except(r, m)
    /\ UNCHANGED <<handler, users, posts, follows, notifications, serial>>
    /\ UNCHANGED spotifyVars

\* create_access_token(data={"sub": str(user["id"])}) and the response
AuthResponse(row) == [access_token |-> [sub |-> row.id], user |-> row]

\* google_sign_in, lines 47-53 and 76-80: the user is looked up by google_id
google_sign_in_select(r) ==
    /\ handler[r] = "google_sign_in"
    /\ pc[r] = "select"
    /\ LET found == {a \in users : a.google_id = local[r].seen} IN
       \/ \* the select answers
          /\ trace' = [trace EXCEPT ![r] = Append(@, "select")]
          /\ IF found # {}
             THEN \E row \in found :
                     End(r, 200, "ok", [local[r] EXCEPT !.body = AuthResponse(row)])
             ELSE /\ pc' = [pc EXCEPT ![r] = "insert"]
                  /\ UNCHANGED <<result, local>>
       \/ \* the select raises
          \E m \in ExcTexts : google_sign_in_except(r, m)
    /\ UNCHANGED <<handler, users, posts, follows, notifications, serial>>
    /\ UNCHANGED spotifyVars

\* google_sign_in, lines 54-80: the user is created
google_sign_in_insert(r) ==
    /\ handler[r] = "google_sign_in"
    /\ pc[r] = "insert"
    /\ \/ \* the row is inserted and returned
          /\ Cardinality(users) < MaxUsers
          /\ LET row == [id |-> NextUserId(users),
                         username |-> UsernameOf(local[r].seen),
                         google_id |-> local[r].seen]
             IN /\ users' = users \cup {row}
                /\ End(r, 200, "ok", [local[r] EXCEPT !.body = AuthResponse(row)])
          /\ trace' = [trace EXCEPT ![r] = Append(@, "insert")]
       \/ \* the insert answers without data
          /\ google_sign_in_except_http(r, 500, "Failed to create user")
          /\ UNCHANGED users
       \/ \* the insert raises
          /\ \E m \in ExcTexts : google_sign_in_except(r, m)
          /\ UNCHANGED users
    /\ UNCHANGED <<handler, posts, follows, notifications, serial>>
    /\ UNCHANGED spotifyVars

\* One user has signed in before
InitAuth ==
    /\ SpotifyIdle
    /\ users = {a \in UsersTable : a.id = "u1"}
    /\ posts = {}
    /\ follows = {}
    /\ notifications = {}
    /\ serial = [posts |-> 0, follows |-> 0]

StepAuth(r) ==
    \/ \E tok \in IdTokens : google_sign_in_request(r, tok)
    \/ google_sign_in_verify(r)
    \/ google_sign_in_select(r)
    \/ google_sign_in_insert(r)
    \/ Respond(r)

NextAuth == \E r \in Reqs : StepAuth(r)

SpecAuth == InitAuth /\ [][NextAuth]_vars

(***************************************************************************)
(* The read routes of posts (src/posts/routes.py) and the optional         *)
(* authentication (src/middleware/auth.py)                                 *)
(***************************************************************************)

MaxLimit == 2
MaxOffset == 2

\* What a request may carry as credentials: no Authorization header, the
\* tokens of u1 and u2, a token with a bad signature, an expired one, one
\* without sub, one whose sub is a number, and one signed for a user that
\* has no row
Credentials ==
    {None, "tok_u1", "tok_u2", "tok_badsig", "tok_expired", "tok_nosub",
     "tok_intsub", "tok_u9"}

\* decode_token: jwt.decode raises JWTError for a bad signature and for an
\* expired token, and the 401 is raised
DecodeIgnoresExpiry(tok) == tok = "tok_badsig"
DecodeRejects(tok) == tok \in {"tok_badsig", "tok_expired"}

\* the sub of the payload of a token: the expired token was issued to u1,
\* the badly signed one names u2; 0 stands for a number
SubOf(tok) ==
    CASE tok \in {"tok_u1", "tok_expired"} -> "u1"
      [] tok \in {"tok_u2", "tok_badsig"} -> "u2"
      [] tok = "tok_u9" -> "u9"
      [] tok = "tok_nosub" -> None
      [] OTHER -> 0

\* user_id is None or not isinstance(user_id, str)
SubRejected(tok) == tok \in {"tok_nosub", "tok_intsub"}

\* The posts the table may hold when the reads are served: q2 and q3 were
\* created at the same instant, q4 has expired
FeedPosts ==
    {[id |-> "q1", user_id |-> "u1", track |-> "t1", caption |-> "c1",
      is_expired |-> FALSE, created_at |-> 1],
     [id |-> "q2", user_id |-> "u2", track |-> "t1", caption |-> "c1",
      is_expired |-> FALSE, created_at |-> 2],
     [id |-> "q3", user_id |-> "u3", track |-> "t1", caption |-> "c1",
      is_expired |-> FALSE, created_at |-> 2],
     [id |-> "q4", user_id |-> "u2", track |-> "t1", caption |-> "c1",
      is_expired |-> TRUE, created_at |-> 3]}
FeedPostIds == {"q1", "q2", "q4", "q9"}

\* The follow rows the table may hold
FeedFollows ==
    {[id |-> 1, follower_id |-> "u1", following_id |-> "u2"],
     [id |-> 2, follower_id |-> "u1", following_id |-> "u3"]}

\* all the orders in which the rows of a set can be listed
RECURSIVE Perms(_)
Perms(S) ==
    IF S = {} THEN {<<>>}
    ELSE UNION {{<<x>> \o p : p \in Perms(S \ {x})} : x \in S}

\* .order("created_at", desc=True): rows of equal created_at come in any
\* order
OrderAscending(S) ==
    {p \in Perms(S) :
        \A i \in 1..Len(p), j \in 1..Len(p) :
            i < j => p[i].created_at <= p[j].created_at}
OrderDescending(S) ==
    {p \in Perms(S) :
        \A i \in 1..Len(p), j \in 1..Len(p) :
            i < j => p[i].created_at >= p[j].created_at}

\* .range(offset, offset + limit - 1): the rows at the positions offset to
\* offset + limit - 1, counted from 0
Range(p, offset, limit) ==
    SubSeq(p, offset + 1, IF offset + limit < Len(p) THEN offset + limit ELSE Len(p))

\* .eq("is_expired", False)
NotExpired(rows) == {p \in rows : ~p.is_expired}

\* A request arrives at a handler with Depends(get_optional_current_user):
\* it carries its credentials and the query parameters limit and offset
BeginOptional(r, h, cred, arg, limit, offset) ==
    Begin(r, None, h, "auth", arg, <<cred, limit, offset>>)

CredOf(r) == local[r].payload[1]
LimitOf(r) == local[r].payload[2]
OffsetOf(r) == local[r].payload[3]

\* where a handler goes after its dependencies are resolved
AfterAuth(h, current_user) ==
    CASE h = "get_feed" -> IF current_user # None THEN "following" ELSE "posts"
      [] h = "get_post" -> "post"
      [] h = "get_user_posts" -> "user"

\* get_optional_current_user, lines 99-110, with get_current_user, lines
\* 66-96, and decode_token, lines 51-63
get_optional_current_user(r) ==
    /\ pc[r] = "auth"
    /\ LET cred == CredOf(r)
           found == {a \in users : a.id = SubOf(cred)}
           proceed(u, mark) ==
               /\ local' = [local EXCEPT ![r] =
                               [@ EXCEPT !.current_user = u, !.seen = mark]]
               /\ pc' = [pc EXCEPT ![r] = AfterAuth(handler[r], u)]
               /\ trace' = [trace EXCEPT ![r] = Append(@, "auth")]
               /\ UNCHANGED result
       IN
       IF cred = None THEN proceed(None, "anonymous")
       ELSE IF DecodeRejects(cred) \/ SubRejected(cred) THEN proceed(None, "rejected")
       ELSE \/ \* the select of the user answers
               IF found = {} THEN proceed(None, "rejected")
               ELSE proceed((CHOOSE a \in found : TRUE).id, "authenticated")
            \/ \* the select raises: not an HTTPException
               \E m \in ExcTexts : general_exception_handler(r, m)
    /\ UNCHANGED <<handler, users, posts, follows, notifications, serial>>
    /\ UNCHANGED spotifyVars

\* format_post_with_user for every row of a list, lines 130 and 261
FormatAll(rows) ==
    [i \in 1..Len(rows) |->
        [post |-> rows[i],
         user |-> (CHOOSE a \in users : a.id = rows[i].user_id).username]]

\* the posts query of a list endpoint has answered with the rows p
RespondList(r, p) ==
    \/ \* every author lookup answers
       /\ End(r, 200, "ok", [local[r] EXCEPT !.body = [posts |-> FormatAll(p)]])
       /\ trace' = [trace EXCEPT ![r] = Append(@, "posts")]
    \/ \* an author lookup raises
       /\ p # <<>>
       /\ \E m \in ExcTexts : general_exception_handler(r, m)

\* get_feed, lines 83-88
get_feed_request(r, cred, limit, offset) ==
    BeginOptional(r, "get_feed", cred, None, limit, offset)

\* get_feed, lines 96-106: the ids the caller follows, and the caller's own
get_feed_following(r) ==
    /\ handler[r] = "get_feed"
    /\ pc[r] = "following"
    /\ \/ \* the select answers
          /\ local' = [local EXCEPT ![r].row =
                 [ids |-> {f.following_id :
                             f \in {g \in follows :
                                      g.follower_id = local[r].current_user}}
                          \cup {local[r].current_user}]]
          /\ trace' = [trace EXCEPT ![r] = Append(@, "following")]
          /\ pc' = [pc EXCEPT ![r] = "posts"]
          /\ UNCHANGED result
       \/ \* the select raises
          \E m \in ExcTexts : general_exception_handler(r, m)
    /\ UNCHANGED <<handler, users, posts, follows, notifications, serial>>
    /\ UNCHANGED spotifyVars

\* get_feed, lines 108-132: the posts query and the formatting
get_feed_posts(r) ==
    /\ handler[r] = "get_feed"
    /\ pc[r] = "posts"
    /\ LET rows == IF local[r].current_user # None
                   THEN {p \in NotExpired(posts) : p.user_id \in local[r].row.ids}
                   ELSE NotExpired(posts)
       IN
       \/ \* the select answers
          \E p \in OrderDescending(rows) :
             RespondList(r, Range(p, OffsetOf(r), LimitOf(r)))
       \/ \* the select raises
          \E m \in ExcTexts : general_exception_handler(r, m)
    /\ UNCHANGED <<handler, users, posts, follows, notifications, serial>>
    /\ UNCHANGED spotifyVars

\* get_post, lines 136-140
get_post_request(r, cred, post_id) ==
    BeginOptional(r, "get_post", cred, post_id, 1, 0)

\* get_post, lines 142-157
get_post(r) ==
    /\ handler[r] = "get_post"
    /\ pc[r] = "post"
    /\ LET found == {p \in NotExpired(posts) : p.id = local[r].arg} IN
       \/ \* the select answers
          IF found = {}
          THEN /\ End(r, 404, "Post not found or has expired", local[r])
               /\ trace' = [trace EXCEPT ![r] = Append(@, "post")]
          ELSE /\ local' = [local EXCEPT ![r].row = CHOOSE p \in found : TRUE]
               /\ trace' = [trace EXCEPT ![r] = Append(@, "post")]
               /\ pc' = [pc EXCEPT ![r] = "format"]
               /\ UNCHANGED result
       \/ \* the select raises
          \E m \in ExcTexts : general_exception_handler(r, m)
    /\ UNCHANGED <<handler, users, posts, follows, notifications, serial>>
    /\ UNCHANGED spotifyVars

\* get_user_posts, lines 231-237
get_user_posts_request(r, cred, username, limit, offset) ==
    BeginOptional(r, "get_user_posts", cred, username, limit, offset)

\* get_user_posts, lines 239-247: the user is looked up by username
get_user_posts_user(r) ==
    /\ handler[r] = "get_user_posts"
    /\ pc[r] = "user"
    /\ LET found == {a \in users : a.username = local[r].arg} IN
       \/ \* the select answers
          /\ trace' = [trace EXCEPT ![r] = Append(@, "user")]
          /\ IF found = {}
             THEN End(r, 404, "User not found", local[r])
             ELSE /\ local' = [local EXCEPT ![r].row = CHOOSE a \in found : TRUE]
                  /\ pc' = [pc EXCEPT ![r] = "posts"]
                  /\ UNCHANGED result
       \/ \* the select raises
          \E m \in ExcTexts : general_exception_handler(r, m)
    /\ UNCHANGED <<handler, users, posts, follows, notifications, serial>>
    /\ UNCHANGED spotifyVars

\* get_user_posts, lines 249-263: the posts query and the formatting
get_user_posts_posts(r) ==
    /\ handler[r] = "get_user_posts"
    /\ pc[r] = "posts"
    /\ LET rows == {p \in NotExpired(posts) : p.user_id = local[r].row.id} IN
       \/ \* the select answers
          \E p \in OrderDescending(rows) :
             RespondList(r, Range(p, OffsetOf(r), LimitOf(r)))
       \/ \* the select raises
          \E m \in ExcTexts : general_exception_handler(r, m)
    /\ UNCHANGED <<handler, users, posts, follows, notifications, serial>>
    /\ UNCHANGED spotifyVars

\* The tables hold some of the posts and some of the follow rows
InitFeed ==
    /\ SpotifyIdle
    /\ users = UsersTable
    /\ posts \in SUBSET FeedPosts
    /\ follows \in SUBSET FeedFollows
    /\ notifications = {}
    /\ serial = [posts |-> 0, follows |-> 0]

StepFeed(r) ==
    \/ \E cred \in Credentials, limit \in 1..MaxLimit, offset \in 0..MaxOffset :
          get_feed_request(r, cred, limit, offset)
    \/ get_optional_current_user(r)
    \/ get_feed_following(r)
    \/ get_feed_posts(r)
    \/ \E cred \in Credentials, id \in FeedPostIds : get_post_request(r, cred, id)
    \/ get_post(r)
    \/ format_post_with_user(r)
    \/ \E cred \in Credentials, n \in Usernames, limit \in 1..MaxLimit,
          offset \in 0..MaxOffset : get_user_posts_request(r, cred, n, limit, offset)
    \/ get_user_posts_user(r)
    \/ get_user_posts_posts(r)
    \/ Respond(r)

\* The requests are served one at a time
NextFeed == StepFeed(1)

SpecFeed == InitFeed /\ [][NextFeed]_vars

(***************************************************************************)
(* The notifications routes (src/notifications/routes.py)                  *)
(***************************************************************************)

\* The rows the notifications table may hold: n3 has been read
AllNotifications ==
    SeedNotifications \cup {[id |-> "n3", user_id |-> "u1", is_read |-> TRUE]}

\* request.notification_ids: a list of at least one id
IdLists == SUBSET NotificationIds \ {{}}

\* .eq("user_id", current_user["id"]).in_("id", request.notification_ids)
ListedOfAnyOwner(rows, caller, ids) == {n \in rows : n.id \in ids}
ListedOfCaller(rows, caller, ids) == {n \in rows : n.user_id = caller /\ n.id \in ids}

\* .update({"is_read": True}) on the rows hit
MarkRead(rows, hit) == (rows \ hit) \cup {[n EXCEPT !.is_read = TRUE] : n \in hit}

\* mark_notifications_as_read, lines 56-60
mark_notifications_as_read_request(r, u, ids) ==
    Begin(r, u, "mark_notifications_as_read", "mark", None, ids)

\* mark_notifications_as_read, lines 62-77: one update, which returns the
\* rows it matched
mark_notifications_as_read(r) ==
    /\ handler[r] = "mark_notifications_as_read"
    /\ pc[r] = "mark"
    /\ LET hit == ListedOfCaller(notifications, local[r].current_user, local[r].payload)
       IN
       \/ \* the update answers
          /\ notifications' = MarkRead(notifications, hit)
          /\ trace' = [trace EXCEPT ![r] = Append(@, "update")]
          /\ IF hit = {}
             THEN End(r, 404, "No notifications found to mark as read", local[r])
             ELSE End(r, 204, "", local[r])
       \/ \* the update raises
          /\ \E m \in ExcTexts : general_exception_handler(r, m)
          /\ UNCHANGED notifications
    /\ UNCHANGED <<handler, users, posts, follows, serial>>
    /\ UNCHANGED spotifyVars

\* mark_all_notifications_as_read, lines 81-84
mark_all_notifications_as_read_request(r, u) ==
    Begin(r, u, "mark_all_notifications_as_read", "mark_all", None, None)

\* mark_all_notifications_as_read, lines 86-90: the unread rows of the
\* caller are updated; the result is not looked at
mark_all_notifications_as_read(r) ==
    /\ handler[r] = "mark_all_notifications_as_read"
    /\ pc[r] = "mark_all"
    /\ LET hit == {n \in notifications :
                     n.user_id = local[r].current_user /\ n.is_read = FALSE}
       IN
       \/ \* the update answers
          /\ notifications' = MarkRead(notifications, hit)
          /\ trace' = [trace EXCEPT ![r] = Append(@, "update")]
          /\ End(r, 204, "", local[r])
       \/ \* the update raises
          /\ \E m \in ExcTexts : general_exception_handler(r, m)
          /\ UNCHANGED notifications
    /\ UNCHANGED <<handler, users, posts, follows, serial>>
    /\ UNCHANGED spotifyVars

\* The table holds some of the notifications
InitNotifications ==
    /\ SpotifyIdle
    /\ users = UsersTable
    /\ posts = {}
    /\ follows = {}
    /\ notifications \in SUBSET AllNotifications
    /\ serial = [posts |-> 0, follows |-> 0]

StepNotifications(r) ==
    \/ \E u \in PostCallers, ids \in IdLists : mark_notifications_as_read_request(r, u, ids)
    \/ mark_notifications_as_read(r)
    \/ \E u \in PostCallers : mark_all_notifications_as_read_request(r, u)
    \/ mark_all_notifications_as_read(r)
    \/ \E u \in PostCallers, id \in NotificationIds : delete_notification_request(r, u, id)
    \/ delete_notification(r)
    \/ Respond(r)

\* The requests are served one at a time
NextNotifications == StepNotifications(1)

SpecNotifications == InitNotifications /\ [][NextNotifications]_vars

----------------------------------------------------------------------------
(* Properties                                                              *)

\* a request served by a Spotify data endpoint whose handler has finished
ApiDone(r) == handler[r] = "api" /\ pc[r] = "done"

Count(seq, x) == Cardinality({i \in DOMAIN seq : seq[i] = x})

\* the instant an expires_at column value denotes
Instant(exp) == exp[1]

\* the credential columns of the row a request loaded
LoadedRow(r) == [at |-> loaded[r].at, rt |-> loaded[r].rt, exp |-> loaded[r].exp]

AllColumns == {"at", "rt", "exp"}

\* C1: a request whose loaded access token is present and whose loaded
\* expires_at lies more than 5 minutes after the clock it read gets a client
\* on the loaded access token, calls the provider not at all, writes nothing
\* to the store and leaves its user dict as loaded.
C1_ValidTokenUsedUnchanged ==
    \A r \in Reqs :
        ( /\ ApiDone(r)
          /\ ~Falsy(loaded[r].at)
          /\ loaded[r].exp # ExpAbsent
          /\ Instant(loaded[r].exp) > req_now[r] + Margin )
        => /\ result[r] = [status |-> 200, detail |-> "ok", token |-> loaded[r].at]
           /\ trace[r] = <<>>
           /\ written[r] = <<>>
           /\ user[r] = loaded[r]

C1_Witness ==
    \E r \in Reqs :
        /\ ApiDone(r)
        /\ ~Falsy(loaded[r].at)
        /\ loaded[r].exp # ExpAbsent
        /\ Instant(loaded[r].exp) > req_now[r] + Margin
        /\ result[r].status = 200
        /\ req_now[r] > 0

\* the precondition of a refresh, on the row and the clock the request read
NearExpiryWithRefreshToken(r) ==
    /\ handler[r] = "api"
    /\ pc[r] \in {"persist", "done"}
    /\ ~Falsy(loaded[r].at)
    /\ ~Falsy(loaded[r].rt)
    /\ loaded[r].exp # ExpAbsent
    /\ Instant(loaded[r].exp) <= req_now[r] + Margin

\* C2: a request whose loaded row has an access token, a refresh token and
\* an expires_at at or before its clock plus 5 minutes calls the provider's
\* refresh exactly once, and when it returns the refreshed token it has
\* written all three columns in one update before that.
C2_OneRefreshWriteBeforeReturn ==
    \A r \in Reqs :
        NearExpiryWithRefreshToken(r)
        => /\ Count(trace[r], "refresh") = 1
           /\ trace[r][1] = "refresh"
           /\ (pc[r] = "persist" => trace[r] = <<"refresh">>)
           /\ (pc[r] = "done" /\ result[r].status = 200
               => /\ trace[r] = <<"refresh", "write", "mem">>
                  /\ Len(written[r]) = 1
                  /\ DOMAIN written[r][1] = AllColumns
                  /\ written[r][1].at = result[r].token
                  /\ result[r].token = token_info[r].access_token)

\* two finished refreshes: one decided exactly on the boundary of the margin,
\* one on a token already past
C2_Witness ==
    \E r, q \in Reqs :
        /\ NearExpiryWithRefreshToken(r) /\ NearExpiryWithRefreshToken(q)
        /\ pc[r] = "done" /\ result[r].status = 200
        /\ pc[q] = "done" /\ result[q].status = 200
        /\ Instant(loaded[r].exp) = req_now[r] + Margin
        /\ Instant(loaded[q].exp) < req_now[q]

\* C3: a request whose loaded access token is absent or empty fails with
\* 400 "Spotify not connected", calls the provider not at all and leaves the
\* row as it was, whatever refresh_token and expires_at hold.
C3_NotConnected ==
    \A r \in Reqs :
        (ApiDone(r) /\ Falsy(loaded[r].at))
        => /\ result[r] = [status |-> 400, detail |-> "Spotify not connected", token |-> None]
           /\ trace[r] = <<>>
           /\ written[r] = <<>>
           /\ user[r] = loaded[r]
           /\ store[loaded[r].id] = LoadedRow(r)

\* the empty access token, beside a refresh token and an expired expires_at
C3_Witness ==
    \E r \in Reqs :
        /\ ApiDone(r)
        /\ loaded[r].at = Empty
        /\ loaded[r].rt = "rt0"
        /\ loaded[r].exp # ExpAbsent
        /\ Instant(loaded[r].exp) < now
        /\ result[r].status = 400

\* C4: a request whose loaded row has an access token, an expires_at at or
\* before its clock plus 5 minutes and no refresh token fails with the 401 of
\* a required reconnect, calls the provider not at all and leaves the row as
\* it was.
C4_ReconnectRequired ==
    \A r \in Reqs :
        ( /\ ApiDone(r)
          /\ ~Falsy(loaded[r].at)
          /\ loaded[r].exp # ExpAbsent
          /\ Instant(loaded[r].exp) <= req_now[r] + Margin
          /\ Falsy(loaded[r].rt) )
        => /\ result[r] = [status |-> 401, detail |-> "no refresh token", token |-> None]
           /\ trace[r] = <<>>
           /\ written[r] = <<>>
           /\ user[r] = loaded[r]
           /\ store[loaded[r].id] = LoadedRow(r)

C4_Witness ==
    \E r \in Reqs :
        /\ ApiDone(r)
        /\ ~Falsy(loaded[r].at)
        /\ loaded[r].exp # ExpAbsent
        /\ Instant(loaded[r].exp) = req_now[r] + Margin
        /\ loaded[r].rt = None
        /\ result[r].status = 401

\* C5: a disconnect sets the three columns of its caller's row to absent,
\* and every later Spotify data request of that user, no callback having
\* written in between, fails with 400 "Spotify not connected".
C5_DisconnectThenNotConnected ==
    /\ \A r \in Reqs :
          (handler[r] = "disconnect" /\ pc[r] = "done" /\ result[r].status = 200)
          => written[r] = <<ClearedRow>>
    /\ \A r \in Reqs :
          (ApiDone(r) /\ after_disconnect[r])
          => result[r].status = 400

\* C6: when a refresh has brought the response (A, R, E) and the request
\* returns, its client uses A and the row it has just written holds A, R and
\* an expires_at that reads back as the clock of the refresh plus E seconds.
C6_RefreshPersistsResponse ==
    [][\A r \in Reqs :
          ( /\ handler[r] = "api"
            /\ pc[r] = "persist"
            /\ pc'[r] = "done"
            /\ result'[r].status = 200 )
          => /\ result'[r].token = token_info[r].access_token
             /\ store'[user[r].id].at = token_info[r].access_token
             /\ store'[user[r].id].rt = token_info[r].refresh_token
             /\ store'[user[r].id].exp # ExpAbsent
             /\ fromisoformat(ReplaceZ(store'[user[r].id].exp))
                  = now + token_info[r].expires_in]_vars

C6_Witness ==
    \E r \in Reqs :
        /\ ApiDone(r)
        /\ result[r].status = 200
        /\ trace[r] = <<"refresh", "write", "mem">>
        /\ result[r].token = token_info[r].access_token
        /\ store[user[r].id].at = token_info[r].access_token
        /\ Instant(store[user[r].id].exp) = now + token_info[r].expires_in
        /\ now > 0

\* the row holds the triple of one provider response p: its two tokens, and
\* an expiry computed from its expires_in at a clock value of the past
FromResponse(row, p) ==
    /\ row.at = p.access_token
    /\ row.rt = p.refresh_token
    /\ row.exp # ExpAbsent
    /\ Instant(row.exp) - p.expires_in \in 0..now

\* C7: in every reachable state the three columns of a row are all absent
\* or are the triple of one provider response, and they are what the update
\* applied last carried: nothing for a disconnect, else that response's triple.
C7_OneTriple ==
    \A u \in Users :
        /\ \/ store[u] = ClearedRow
           \/ \E i \in DOMAIN provLog : FromResponse(store[u], provLog[i])
        /\ lastWrite[u].id = 0 => store[u] = ClearedRow
        /\ lastWrite[u].id > 0 => FromResponse(store[u], provLog[lastWrite[u].id])

\* two requests refreshed the same loaded row and both wrote their response
C7_Witness ==
    \E r, q \in Reqs :
        /\ r # q
        /\ ApiDone(r) /\ ApiDone(q)
        /\ loaded[r] = loaded[q]
        /\ trace[r] = <<"refresh", "write", "mem">>
        /\ trace[q] = <<"refresh", "write", "mem">>
        /\ token_info[r].id < token_info[q].id
        /\ lastWrite[loaded[r].id].id = token_info[r].id
        /\ store[loaded[r].id].rt = token_info[r].refresh_token

\* C8: when the provider's refresh call fails the request makes no second
\* call, ends with the 401 of a failed refresh, has written nothing to the
\* store and has its user dict as loaded.
C8_RefreshFailureNoRetry ==
    \A r \in Reqs :
        ( /\ ApiDone(r)
          /\ Count(trace[r], "refresh") > 0
          /\ token_info[r] = NoTokenInfo )
        => /\ trace[r] = <<"refresh">>
           /\ result[r] = [status |-> 401, detail |-> "refresh failed", token |-> None]
           /\ written[r] = <<>>
           /\ user[r] = loaded[r]

C8_Witness ==
    \E r \in Reqs :
        /\ ApiDone(r)
        /\ trace[r] = <<"refresh">>
        /\ token_info[r] = NoTokenInfo
        /\ result[r].status = 401
        /\ store[loaded[r].id] = LoadedRow(r)

\* C9: a request whose loaded row has an access token and no expires_at
\* reads no clock, calls the provider not at all and gets a client on the
\* loaded access token, whatever the clock and the refresh_token column.
C9_NoExpiryNeverRefreshes ==
    \A r \in Reqs :
        (ApiDone(r) /\ ~Falsy(loaded[r].at) /\ loaded[r].exp = ExpAbsent)
        => /\ result[r] = [status |-> 200, detail |-> "ok", token |-> loaded[r].at]
           /\ trace[r] = <<>>
           /\ written[r] = <<>>
           /\ req_now[r] = -1
           /\ user[r] = loaded[r]

\* with a refresh token on file, at the latest clock value of the model
C9_Witness ==
    \E r \in Reqs :
        /\ ApiDone(r)
        /\ ~Falsy(loaded[r].at)
        /\ loaded[r].exp = ExpAbsent
        /\ loaded[r].rt = "rt0"
        /\ now = MaxTicks * TickStep
        /\ result[r].status = 200

\* C10: once a request has updated its user dict after a refresh, the dict's
\* three credential fields are the three values of the update it wrote to
\* the store before; a request whose store write failed has its dict as loaded.
C10_MemoryFollowsStore ==
    \A r \in Reqs :
        handler[r] = "api"
        => /\ Count(trace[r], "mem") > 0
              => /\ trace[r] = <<"refresh", "write", "mem">>
                 /\ Len(written[r]) = 1
                 /\ DOMAIN written[r][1] = AllColumns
                 /\ user[r].at = written[r][1].at
                 /\ user[r].rt = written[r][1].rt
                 /\ user[r].exp = written[r][1].exp
                 /\ user[r].id = loaded[r].id
                 /\ result[r].token = user[r].at
           /\ Count(trace[r], "write_failed") > 0
              => /\ user[r] = loaded[r]
                 /\ result[r].status = 401

C10_Witness ==
    \E r \in Reqs :
        /\ ApiDone(r)
        /\ trace[r] = <<"refresh", "write", "mem">>
        /\ user[r] # loaded[r]
        /\ user[r].rt = token_info[r].refresh_token
        /\ user[r].exp = written[r][1].exp

\* a call of the user has ended for a failed refresh or for lack of a refresh
\* token, and nothing has written the row since
RefreshHasFailed(u) == lastWrite[u].failed

\* the step in which the data request in slot r ends, taken while an earlier
\* failure of its user stands
EndsAfterFailure(r) ==
    /\ handler[r] = "api"
    /\ pc[r] # "done"
    /\ pc'[r] = "done"
    /\ RefreshHasFailed(user[r].id)

\* C11 (as stated): once a call ended for a failed refresh or for lack of a
\* refresh token, no later call of the user gets a client unless a callback
\* or a disconnect has written the row before: no call moves the user back
\* to a valid credential by itself.
C11_ExpiredNoRefreshIsTerminal ==
    [][\A r \in Reqs : EndsAfterFailure(r) => result'[r].status # 200]_vars

\* C11 (amended): a later call on the row of the failure either fails again
\* with 401 and leaves the row as it is (without a call when the row has no
\* refresh token, after one more refresh call when it has one), or its own
\* refresh succeeds, is written to the row, and the call gets its client on
\* the refreshed token; it never uses the stored token as it is.
C11_FailedRefreshIsRetried ==
    [][\A r \in Reqs :
          EndsAfterFailure(r)
          => \/ /\ result'[r].status = 401
                /\ store' = store
                /\ RefreshHasFailed(user[r].id)'
                /\ Falsy(loaded[r].rt) => trace'[r] = <<>>
                /\ ~Falsy(loaded[r].rt) => trace'[r][1] = "refresh"
             \/ /\ ~Falsy(loaded[r].rt)
                /\ result'[r].status = 200
                /\ trace'[r] = <<"refresh", "write", "mem">>
                /\ result'[r].token = token_info[r].access_token
                /\ store'[user[r].id].at = token_info[r].access_token
                /\ ~RefreshHasFailed(user[r].id)']_vars

\* a call that refreshed and got its client at a moment when the last
\* refresh before it, on the same row, had failed
C11_Witness ==
    \E r \in Reqs :
        /\ handler[r] = "api"
        /\ pc[r] = "persist"
        /\ RefreshHasFailed(user[r].id)
        /\ store[user[r].id] = LoadedRow(r)
        /\ trace[r] = <<"refresh">>

\* the step is the store write of a callback whose `state` is u
CallbackWrites(u) ==
    \E r \in Reqs :
        /\ pc[r] = "cbwrite"
        /\ cbState[r] = u
        /\ result'[r].status = 200

\* C12: the access token of a row goes from absent to present only in the
\* store write of a successful callback for that user; in particular a row
\* that a disconnect has cleared stays cleared until that write.
C12_PresentOnlyByCallback ==
    [][\A u \in Users :
          (Falsy(store[u].at) /\ ~Falsy(store'[u].at)) => CallbackWrites(u)]_vars

\* the data request in slot r has refreshed, written its response and ended
RefreshedAndWrote(r) ==
    /\ ApiDone(r)
    /\ trace[r] = <<"refresh", "write", "mem">>

\* Two requests presented the same refresh token and both got a response:
\* the provider, rotating its tokens, holds the response it issued later for
\* the current one, and the refresh token of the earlier response is stale.
StaleAfterConcurrentRefresh(rt) ==
    \E r, q \in Reqs :
        /\ r # q
        /\ RefreshedAndWrote(r) /\ RefreshedAndWrote(q)
        /\ user[r].id = user[q].id
        /\ loaded[r].rt = loaded[q].rt
        /\ token_info[r].id < token_info[q].id
        /\ rt = token_info[r].refresh_token

\* C13: after two requests of a user refreshed the same near-expiry
\* credential and wrote their responses, the row does not hold the stale one
\* of the two refresh tokens, so that the next near-expiry call can refresh
\* from the row.
C13_ConcurrentRefreshSelfCorrects ==
    \A u \in Users : ~StaleAfterConcurrentRefresh(store[u].rt)

\* the step in which the callback request in slot r ends
CallbackEnds(r) ==
    /\ pc[r] \in {"idle", "cbwrite"}
    /\ handler'[r] = "callback"
    /\ pc'[r] = "done"

\* C17: a callback that answers 200 has exchanged the code, looked the
\* provider user up and then set the row whose id is `state` to the triple
\* of the exchange response, expires_at being the clock plus expires_in, in
\* its last step; a callback that ends otherwise changes no row: 400 after a
\* failed exchange and nothing else, 500 after a failed lookup, 404 when no
\* row has the id.
C17_CallbackWritesOnlyOnSuccess ==
    [][\A r \in Reqs :
          CallbackEnds(r)
          => LET st == cbState'[r]
                 ti == token_info'[r]
                 res == result'[r]
             IN
             /\ res.status \in {200, 400, 404, 500}
             /\ res.status = 200
                => /\ pc[r] = "cbwrite"
                   /\ trace'[r] = <<"exchange", "userinfo", "write">>
                   /\ st \in Users
                   /\ \E i \in DOMAIN provLog : provLog[i] = Issued(ti)
                   /\ store' = [store EXCEPT ![st] =
                                  [at |-> ti.access_token, rt |-> ti.refresh_token,
                                   exp |-> isoformat(now + ti.expires_in)]]
             /\ res.status # 200 => store' = store
             /\ res.status = 400 => trace'[r] = <<"exchange">>
             /\ res.detail = "Failed to get Spotify user info"
                => /\ res.status = 500
                   /\ trace'[r] = <<"exchange", "userinfo">>
             /\ res.status = 404
                => /\ st \notin Users
                   /\ trace'[r] = <<"exchange", "userinfo", "write_nomatch">>]_vars

\* a callback has replaced the credential of a connected user, later than
\* the exchange that brought its tokens
C17_Witness ==
    \E r \in Reqs :
        /\ handler[r] = "callback"
        /\ pc[r] = "done"
        /\ result[r].status = 200
        /\ token_info[r].id > 1
        /\ now > 0
        /\ store[cbState[r]] = written[r][1]
        /\ Instant(store[cbState[r]].exp) = now + token_info[r].expires_in

\* C18: when the provider has answered the refresh call of a request with a
\* new token pair, the row holds that pair at the moment the request's
\* get_user_spotify_client ends, by returning or by raising.
C18_IssuedPairIsStored ==
    [][\A r \in Reqs :
          ( /\ handler[r] = "api"
            /\ pc[r] = "persist"
            /\ pc'[r] = "done" )
          => /\ store'[user[r].id].at = token_info[r].access_token
             /\ store'[user[r].id].rt = token_info[r].refresh_token]_vars

\* the request in slot r acts for user u: it is authenticated as u, or it is
\* a callback whose code comes from u's own authorization at the provider
ActsFor(r, u) ==
    \/ handler[r] \in {"api", "disconnect"} /\ user[r].id = u
    \/ handler[r] = "callback" /\ code[r] = u

\* C19: every step that changes the credential columns of a user's row is
\* the store write of a request that acts for that user.
C19_WrittenOnlyForOwner ==
    [][\A u \in Users :
          store'[u] # store[u]
          => \E r \in Reqs :
                /\ pc[r] \in {"persist", "clear", "cbwrite"}
                /\ pc'[r] = "done"
                /\ ActsFor(r, u)]_vars

\* the response the three handlers give for a resource that is not there
NotFoundResponse(h) ==
    [status |-> 404,
     detail |-> CASE h = "update_post"
                       -> "Post not found or you don't have permission to edit it"
                  [] h = "delete_post"
                       -> "Post not found or you don't have permission to delete it"
                  [] h = "delete_notification"
                       -> "Notification not found or you don't have permission to delete it",
     token |-> None]

\* C14: when the store has answered an update_post, delete_post or
\* delete_notification request whose target is a row of another user or no
\* row at all, the request ends with the 404 of its handler, the same in
\* both cases and with no body, and the posts and notifications tables are
\* as they were.
C14_NotOwnedLooksAbsent ==
    [][\A r \in Reqs :
          ( /\ handler[r] \in {"update_post", "delete_post", "delete_notification"}
            /\ pc[r] # "done"
            /\ pc'[r] = "done"
            /\ local'[r].seen \in {"other", "absent"} )
          => /\ result'[r] = NotFoundResponse(handler[r])
             /\ local'[r].body = NoBody
             /\ posts' = posts
             /\ notifications' = notifications]_vars

\* an update_post for a post that exists and belongs to somebody else
C14_Witness ==
    \E r \in Reqs :
        /\ handler[r] = "update_post"
        /\ pc[r] = "done"
        /\ local[r].seen = "other"
        /\ result[r].status = 404
        /\ \E p \in posts : p.id = local[r].arg /\ p.user_id # local[r].current_user

\* C16: a create_post whose insert succeeded and whose author lookup in
\* format_post_with_user raises ends with an error response, and the row it
\* inserted is still in the posts table: nothing is deleted.
C16_CreatePostNotAtomic ==
    [][\A r \in Reqs :
          ( /\ handler[r] = "create_post"
            /\ pc[r] = "format"
            /\ pc'[r] = "done"
            /\ trace'[r] = <<"insert", "raise">> )
          => /\ result'[r].status >= 400
             /\ local'[r].body = NoBody
             /\ \E p \in posts' : p.id = local[r].row.id
             /\ posts' = posts]_vars

\* a create_post that ended in the error while its row is stored
C16_Witness ==
    \E r \in Reqs :
        /\ handler[r] = "create_post"
        /\ pc[r] = "done"
        /\ trace[r] = <<"insert", "raise">>
        /\ result[r].status = 500
        /\ local[r].row \in posts

\* the ids of the users that carry the username a follow_user request names
C20_Target(r) == {a.id : a \in {b \in UsersTable : b.username = local[r].arg}}

\* the step of request r in which the store call named step has answered
C20_Answered(r, step) ==
    /\ handler[r] = "follow_user"
    /\ pc[r] = step
    /\ pc'[r] # step
    /\ trace'[r] = Append(trace[r], step)

C20_Rejected(r, status, detail) ==
    /\ pc'[r] = "done"
    /\ result'[r] = [status |-> status, detail |-> detail, token |-> None]
    /\ local'[r].body = NoBody
    /\ follows' = follows

\* C20: follow_user answers 404 for a username nobody has, 400 when the
\* target is the caller and 400 when a row (caller, target) exists, each
\* time leaving follows as it was, and rejects in no other case; otherwise
\* its insert adds exactly one row (caller, target) and its response is 200
\* with is_following true and followers_count the number of rows whose
\* following_id is the target.
C20_FollowUser ==
    [][\A r \in Reqs :
          LET caller == local[r].current_user
              pair == {f \in follows : /\ f.follower_id = caller
                                       /\ f.following_id \in C20_Target(r)}
          IN
          /\ C20_Answered(r, "target") =>
                /\ C20_Target(r) = {} => C20_Rejected(r, 404, "User not found")
                /\ C20_Target(r) = {caller}
                      => C20_Rejected(r, 400, "You cannot follow yourself")
                /\ (C20_Target(r) # {} /\ C20_Target(r) # {caller})
                      => pc'[r] = "existing" /\ follows' = follows
          /\ C20_Answered(r, "existing") =>
                /\ pair # {} => C20_Rejected(r, 400, "Already following this user")
                /\ pair = {} => pc'[r] = "insert" /\ follows' = follows
          /\ C20_Answered(r, "insert") =>
                /\ follows \subseteq follows'
                /\ Cardinality(follows' \ follows) = 1
                /\ \A f \in follows' \ follows :
                       f.follower_id = caller /\ f.following_id \in C20_Target(r)
                /\ pc'[r] = "count"
          /\ C20_Answered(r, "count") =>
                /\ pc'[r] = "done"
                /\ result'[r].status = 200
                /\ local'[r].body.is_following
                /\ local'[r].body.followers_count =
                       Cardinality({f \in follows' : f.following_id \in C20_Target(r)})
                /\ follows' = follows]_vars

\* the second follower of a user has been told that there are two
C20_Witness ==
    \E r \in Reqs :
        /\ handler[r] = "follow_user"
        /\ pc[r] = "done"
        /\ trace[r] = <<"target", "existing", "insert", "count">>
        /\ result[r].status = 200
        /\ local[r].body.followers_count = 2
        /\ \E f \in follows : f.follower_id = local[r].current_user
                               /\ f.following_id \in C20_Target(r)

\* a request that an exception nobody anticipated has ended
C15_EndedByUnexpected(r) == pc[r] = "done" /\ local[r].exc # None

\* C15: a request that an unexpected exception has ended carries status 500
\* and the one fixed message, whatever the text of the exception.
C15_UnexpectedIsOpaque ==
    \A r \in Reqs :
        C15_EndedByUnexpected(r)
        => result[r] = [status |-> 500, detail |-> "Internal server error", token |-> None]

\* C21: the follows table never holds a row of a user following themselves
\* and never holds two rows for the same (follower_id, following_id) pair.
C21_FollowsAreUnique ==
    /\ \A f \in follows : f.follower_id # f.following_id
    /\ \A f, g \in follows :
          (f.follower_id = g.follower_id /\ f.following_id = g.following_id) => f = g

\* the step in which the delete of the unfollow_user request r has answered
C22_DeleteAnswered(r) ==
    /\ handler[r] = "unfollow_user"
    /\ pc[r] = "delete"
    /\ pc'[r] # "delete"
    /\ trace'[r] = Append(trace[r], "delete")

\* the rows of the pair the request r names
C22_Pair(r) ==
    {f \in follows : /\ f.follower_id = local[r].current_user
                     /\ f.following_id \in C20_Target(r)}

\* request q is a follow_user that has succeeded for the pair the request r
\* names, and since q looked at the follows table nothing but rows of that
\* pair has been added to it and nothing has been removed
C22_FollowedBefore(q, r) ==
    /\ handler[q] = "follow_user"
    /\ pc[q] = "done"
    /\ result[q].status = 200
    /\ local[q].current_user = local[r].current_user
    /\ local[q].arg = local[r].arg
    /\ local[q].before \subseteq follows
    /\ follows \ local[q].before \subseteq C22_Pair(r)

\* C22: when the delete of an unfollow_user has answered, a caller without
\* a row for the target gets the 400 and follows is as it was; otherwise
\* exactly the rows (caller, target) are gone and every other row is kept,
\* and if a follow_user of the same caller for the same target had
\* succeeded just before, follows is again what that follow_user found.
C22_UnfollowRemovesThePair ==
    [][\A r \in Reqs :
          C22_DeleteAnswered(r) =>
             /\ C22_Pair(r) = {} =>
                   /\ pc'[r] = "done"
                   /\ result'[r] = [status |-> 400,
                                    detail |-> "You are not following this user",
                                    token |-> None]
                   /\ local'[r].body = NoBody
                   /\ follows' = follows
             /\ C22_Pair(r) # {} =>
                   /\ pc'[r] = "count"
                   /\ follows' = follows \ C22_Pair(r)
                   /\ \A q \in Reqs \ {r} :
                          C22_FollowedBefore(q, r) => follows' = local[q].before]_vars

\* a follow_user has succeeded and the unfollow_user that came after it
\* has removed its row while a row of another pair is kept
C22_Witness ==
    \E r \in Reqs : \E q \in Reqs \ {r} :
        /\ handler[r] = "unfollow_user"
        /\ trace[r] = <<"target", "delete">>
        /\ pc[r] = "count"
        /\ handler[q] = "follow_user"
        /\ pc[q] = "done"
        /\ result[q].status = 200
        /\ local[q].current_user = local[r].current_user
        /\ local[q].arg = local[r].arg
        /\ follows = local[q].before
        /\ follows # {}

\* a get_feed request whose posts query has answered and that has ended
C23_FeedAnswered(r) ==
    /\ handler[r] = "get_feed"
    /\ pc[r] = "done"
    /\ result[r].status = 200

\* the posts the caller of the get_feed request r may see: not expired and,
\* for an authenticated caller, written by the caller or by somebody the
\* caller follows
C23_Visible(r) ==
    {p \in posts :
        /\ p.is_expired = FALSE
        /\ \/ local[r].current_user = None
           \/ p.user_id = local[r].current_user
           \/ \E f \in follows : /\ f.follower_id = local[r].current_user
                                  /\ f.following_id = p.user_id}

C24_NoneOrRejected(r) ==
    \/ CredOf(r) \in
          {None, "tok_badsig", "tok_expired", "tok_nosub", "tok_intsub"}
    \/ /\ CredOf(r) = "tok_u9"
       /\ ~ \E a \in users : a.id = "u9"

\* what get_feed may answer to a request without credentials
C24_AnonymousFeeds(offset, limit) ==
    LET rows == {p \in posts : p.is_expired = FALSE}
        newest_first == {o \in Perms(rows) :
                           \A i \in 1..Len(o), j \in 1..Len(o) :
                               i < j => o[i].created_at >= o[j].created_at}
    IN {[i \in 1..(IF Len(o) - offset < limit
                    THEN (IF Len(o) < offset THEN 0 ELSE Len(o) - offset)
                    ELSE limit) |-> o[offset + i]] : o \in newest_first}

\* C24: a request to get_feed, get_post or get_user_posts that carries no
\* credentials or rejected ones is served without a user once its user
\* lookup has answered: it is never answered 401, and a get_feed answer is
\* one that a request without credentials gets.
C24_RejectedIsAnonymous ==
    \A r \in Reqs :
        ( /\ handler[r] \in {"get_feed", "get_post", "get_user_posts"}
          /\ pc[r] # "auth"
          /\ trace[r] # <<>>
          /\ trace[r][1] = "auth"
          /\ C24_NoneOrRejected(r) )
        => /\ local[r].current_user = None
           /\ result[r].status # 401
           /\ (handler[r] = "get_feed" /\ pc[r] = "done" /\ result[r].status = 200)
                 => \E a \in C24_AnonymousFeeds(OffsetOf(r),
                                                LimitOf(r)) :
                       /\ Len(a) = Len(local[r].body.posts)
                       /\ \A i \in 1..Len(a) : local[r].body.posts[i].post = a[i]

\* a get_feed with an expired token of u1 has been answered with a post of
\* somebody u1 does not follow
C24_Witness ==
    \E r \in Reqs :
        /\ handler[r] = "get_feed"
        /\ pc[r] = "done"
        /\ result[r].status = 200
        /\ CredOf(r) = "tok_expired"
        /\ \E i \in 1..Len(local[r].body.posts) :
              /\ local[r].body.posts[i].post.user_id = "u3"
              /\ ~ \E f \in follows : f.follower_id = "u1" /\ f.following_id = "u3"

\* C25: a step of a request that changes or removes a post row is the
\* update of an update_post or the delete of a delete_post whose caller is
\* the user_id of the row; the update leaves every field but caption as it
\* was, and either step leaves every other post as it was.
C25_PostsChangedOnlyByOwner ==
    [][\A p \in posts :
          (p \notin posts' /\ pc' # pc)
          => \E r \in Reqs :
                /\ pc'[r] # pc[r]
                /\ local[r].current_user = p.user_id
                /\ local[r].arg = p.id
                /\ \/ /\ handler[r] = "update_post"
                      /\ pc[r] = "update"
                      /\ \E q \in posts' :
                            /\ q = [p EXCEPT !.caption = q.caption]
                            /\ posts' \ {q} = posts \ {p}
                   \/ /\ handler[r] = "delete_post"
                      /\ pc[r] = "delete"
                      /\ posts' = posts \ {p}]_vars

\* the owner of one post has changed its caption while the table holds a
\* post of somebody else
C25_Witness ==
    \E r \in Reqs :
        /\ handler[r] = "update_post"
        /\ pc[r] = "format"
        /\ trace[r] = <<"select", "update">>
        /\ local[r].row.caption = "c2"
        /\ local[r].row \in posts
        /\ local[r].row.user_id = local[r].current_user
        /\ \E p \in posts : p.user_id # local[r].current_user /\ p.caption = "c1"

\* the row a handler returns has the expired flag set
C26_Expired(row) == row.is_expired

\* C26: no finished get_post, get_feed, get_user_posts or update_post
\* carries in its response a post row whose is_expired flag is true.
C26_NoExpiredPostReturned ==
    \A r \in Reqs :
        (pc[r] = "done" /\ result[r].status = 200) =>
            /\ handler[r] \in {"get_post", "update_post"}
                  => ~C26_Expired(local[r].body.post)
            /\ handler[r] \in {"get_feed", "get_user_posts"}
                  => \A i \in 1..Len(local[r].body.posts) :
                         ~C26_Expired(local[r].body.posts[i].post)

\* the step in which the one store call of request r, a request to one of
\* the three notifications handlers that write, has answered
C27_Answered(r) ==
    /\ pc[r] \in {"mark", "mark_all", "delete_notification"}
    /\ pc'[r] = "done"
    /\ trace'[r] = Append(trace[r], IF pc[r] = "delete_notification"
                                    THEN "delete" ELSE "update")

\* the notifications of the caller of r that the request names
C27_Named(r) ==
    {n \in notifications :
        /\ n.user_id = local[r].current_user
        /\ CASE pc[r] = "mark" -> n.id \in local[r].payload
             [] pc[r] = "mark_all" -> TRUE
             [] OTHER -> n.id = local[r].arg}

\* C27: when the store call of mark_notifications_as_read,
\* mark_all_notifications_as_read or delete_notification has answered, the
\* notifications of every other user and those of the caller that the
\* request does not name are as they were; the two mark handlers leave the
\* named rows in the table with is_read set and nothing else changed; and
\* mark_notifications_as_read and delete_notification answer 404 with the
\* table unchanged when the request names no notification of the caller.
C27_OnlyOwnNotifications ==
    [][\A r \in Reqs :
          C27_Answered(r) =>
             /\ notifications \ C27_Named(r) \subseteq notifications'
             /\ pc[r] \in {"mark", "mark_all"} =>
                   notifications' = (notifications \ C27_Named(r)) \cup
                       {[id |-> n.id, user_id |-> n.user_id, is_read |-> TRUE] :
                           n \in C27_Named(r)}
             /\ pc[r] = "delete_notification" =>
                   notifications' = notifications \ C27_Named(r)
             /\ (pc[r] # "mark_all" /\ C27_Named(r) = {}) =>
                   /\ result'[r].status = 404
                   /\ notifications' = notifications
             /\ (pc[r] = "mark_all" \/ C27_Named(r) # {}) => result'[r].status = 204]_vars

\* u1 has marked a list that names n1 and the notification n2 of u2: n1 is
\* read, n2 is not
C27_Witness ==
    \E r \in Reqs :
        /\ handler[r] = "mark_notifications_as_read"
        /\ pc[r] = "done"
        /\ result[r].status = 204
        /\ local[r].current_user = "u1"
        /\ {"n1", "n2"} \subseteq local[r].payload
        /\ [id |-> "n1", user_id |-> "u1", is_read |-> TRUE] \in notifications
        /\ [id |-> "n2", user_id |-> "u2", is_read |-> FALSE] \in notifications

\* C28: the users table holds at most one row for each google_id.
C28_OneRowPerGoogleId ==
    \A a \in users : \A b \in users : a.google_id = b.google_id => a = b

====
